---- MODULE Spec2Model ----
(***************************************************************************)
(* Marketing-Intelligence: the dashboard script (src/app.py) and the       *)
(* analysis script (src/test.py) as one state machine.  Both scripts read  *)
(* the same CSV inputs (one file per channel plus Business.csv) and run    *)
(* top to bottom; every section of a script is one action.  Money and      *)
(* counts are integers; every value pandas holds as a float that may be    *)
(* NaN or +inf is a record [k, n, d]: k = "num" (the fraction n/d in       *)
(* lowest terms, d > 0), k = "nan" or k = "inf".                           *)
(***************************************************************************)
EXTENDS Integers, Sequences, FiniteSets

VARIABLES
    prog,              \* which script runs: "app" (src/app.py) or "test" (src/test.py)
    pc,                \* the section the script is about to execute
    files,             \* the channel CSV files: channel -> sequence of raw rows
    headers,           \* the header line of each channel file: channel -> column names
    business,          \* data/Business.csv: sequence of business rows
    all_marketing,     \* app: all_marketing, test: all_data
    daily_marketing,   \* app: daily_marketing, test: daily_summary
    combined,          \* business left-joined with the daily aggregate
    date_range,        \* app: the sidebar date range <<start, end>>
    selected_channels, \* app: the sidebar channel multiselect
    kpi,               \* app: total_spend, total_attributed_revenue, avg_roas
    channel_stats,     \* app: channel_stats, test: channel_summary
    campaign_stats,    \* app: campaign_stats, test: campaign_summary
    underperforming,   \* app: the reallocation candidates
    potential_savings, \* app: the reallocatable amount, or NaN when none is reported
    low_roas,          \* test: campaigns with roas < 0.5
    anomalies,         \* app: anomalies, test: spikes
    recommendations,   \* the recommendation list
    quality,           \* test.py: the totals of the sanity check and its verdict
    error              \* "none", or the exception that stopped the script

vars == <<prog, pc, files, headers, business, all_marketing, daily_marketing, combined,
          date_range, selected_channels, kpi, channel_stats, campaign_stats,
          underperforming, potential_savings, low_roas, anomalies,
          recommendations, quality, error>>

----------------------------------------------------------------------------
(* Floats: fractions, NaN and +inf *)

Abs(x) == IF x < 0 THEN -x ELSE x

RECURSIVE GCD(_, _)
GCD(a, b) == IF b = 0 THEN a ELSE GCD(b, a % b)

NaN == [k |-> "nan", n |-> 0, d |-> 1]
Inf == [k |-> "inf", n |-> 1, d |-> 1]

\* the float n/d for d > 0
Rat(n, d) ==
    LET g == GCD(Abs(n), d)
    IN  IF g = 0 THEN [k |-> "num", n |-> 0, d |-> 1]
        ELSE [k |-> "num", n |-> n \div g, d |-> d \div g]

Num(x) == Rat(x, 1)

IsNum(v) == v.k = "num"
IsNaN(v) == v.k = "nan"
IsInf(v) == v.k = "inf"

\* a cell of the unified record set that no file value fills: pd.concat puts NaN in
\* the column of a frame that lacks it
NA == -1

\* pandas float division of two non-negative numbers, x / y: a zero divisor gives
\* +inf, and 0 / 0 gives NaN; no exception is raised.  A NaN operand gives NaN.
Div(x, y) ==
    IF x = NA \/ y = NA THEN NaN
    ELSE IF y = 0 THEN (IF x = 0 THEN NaN ELSE Inf) ELSE Rat(x, y)

\* x / y.replace(0, np.nan): a zero divisor gives NaN
SafeDiv(x, y) ==
    IF x = NA \/ y = NA THEN NaN
    ELSE IF y = 0 THEN NaN ELSE Rat(x, y)

\* float division where either operand may already be NaN (an absent joined field)
DivF(a, b) ==
    IF IsNaN(a) \/ IsNaN(b) THEN NaN
    ELSE IF b.n = 0 THEN (IF a.n = 0 THEN NaN ELSE Inf)
    ELSE Rat(a.n * b.d, a.d * b.n)

SafeDivF(a, b) ==
    IF IsNaN(a) \/ IsNaN(b) THEN NaN
    ELSE IF b.n = 0 THEN NaN
    ELSE Rat(a.n * b.d, a.d * b.n)

\* a < b on floats: every comparison with NaN is False
Lt(a, b) ==
    CASE IsNaN(a) \/ IsNaN(b) -> FALSE
      [] IsInf(a) -> FALSE
      [] IsInf(b) -> TRUE
      [] OTHER -> a.n * b.d < b.n * a.d

Gt(a, b) == Lt(b, a)

AddF(a, b) == Rat(a.n * b.d + b.n * a.d, a.d * b.d)

\* Series.sum(): NaN entries are skipped, the empty sum is 0
RECURSIVE SumF(_)
SumF(s) ==
    IF s = <<>> THEN Num(0)
    ELSE IF IsNaN(Head(s)) THEN SumF(Tail(s))
    ELSE AddF(Head(s), SumF(Tail(s)))

\* Series.mean(): NaN entries are skipped, the mean of nothing is NaN
MeanF(s) ==
    LET live == SelectSeq(s, LAMBDA v: ~IsNaN(v))
        tot  == SumF(live)
    IN  IF live = <<>> THEN NaN ELSE Rat(tot.n, tot.d * Len(live))

\* the sum of a column of counts or money: NaN cells are skipped
RECURSIVE SumInt(_)
SumInt(s) ==
    IF s = <<>> THEN 0
    ELSE IF Head(s) = NA THEN SumInt(Tail(s))
    ELSE Head(s) + SumInt(Tail(s))

Col(rows, f) == [i \in 1..Len(rows) |-> rows[i][f]]

RECURSIVE Flatten(_)
Flatten(ss) == IF ss = <<>> THEN <<>> ELSE Head(ss) \o Flatten(Tail(ss))

----------------------------------------------------------------------------
(* Loading and normalising: the channel files and the unified record set *)

\* files = {"Facebook": ..., "Google": ..., "TikTok": ...}: the dict's insertion order,
\* which is also the channels' sort order
Channels == <<"Facebook", "Google", "TikTok">>

\* the campaign names of the data, in sort order
Campaigns == <<"Brand", "Promo">>

\* pd.to_datetime(errors="coerce") gives NaT for a date string that is no date
NaT == -1
\* a date cell of Business.csv that does not parse as a date (0); the dates 1, 2, ...
\* are the date strings that parse, in calendar (and string) order
BadDate == 0
to_datetime(d) == IF d >= 1 THEN d ELSE NaT

\* the columns both scripts read from the unified record set
RequiredCols ==
    {"date", "campaign", "impression", "clicks", "spend", "attributed_revenue"}

\* clean_columns: x.strip().lower().replace(" ", "_") on the header spellings of
\* the files
clean_columns(x) ==
    CASE x \in {"date", "Date", " date"} -> "date"
      [] x \in {"campaign", "Campaign", "campaign "} -> "campaign"
      [] x \in {"impression", "Impression", " Impression"} -> "impression"
      [] x \in {"clicks", "Clicks", "clicks "} -> "clicks"
      [] x \in {"spend", "Spend", " spend "} -> "spend"
      [] x \in {"attributed_revenue", "Attributed Revenue", "attributed revenue"}
            -> "attributed_revenue"

\* the columns of one frame after clean_columns
ColumnsOf(header) == {clean_columns(x) : x \in header}

\* the columns of pd.concat(dfs): those of any frame
ConcatColumns(hs) == UNION {ColumnsOf(hs[c]) : c \in DOMAIN hs}

\* the campaign cell of a row whose frame has no campaign column (NaN)
NoCampaign == "NaN"

\* the rows of one frame as pd.concat lays them out: a column the frame lacks is NaN
Reindex(rows, cols) ==
    [i \in 1..Len(rows) |->
        [date |-> IF "date" \in cols THEN rows[i].date ELSE NA,
         campaign |-> IF "campaign" \in cols THEN rows[i].campaign ELSE NoCampaign,
         impression |-> IF "impression" \in cols THEN rows[i].impression ELSE NA,
         clicks |-> IF "clicks" \in cols THEN rows[i].clicks ELSE NA,
         spend |-> IF "spend" \in cols THEN rows[i].spend ELSE NA,
         attributed_revenue |->
             IF "attributed_revenue" \in cols THEN rows[i].attributed_revenue
             ELSE NA]]

\* the exception of df[col] or df.groupby(col) on a frame without the column
KeyError(col) ==
    CASE col = "date" -> "KeyError: 'date'"
      [] col = "campaign" -> "KeyError: 'campaign'"
      [] col = "impression" -> "KeyError: 'impression'"
      [] col = "clicks" -> "KeyError: 'clicks'"
      [] col = "spend" -> "KeyError: 'spend'"
      [] col = "attributed_revenue" -> "KeyError: 'attributed_revenue'"

\* the first column, in the order the script looks them up, that the frame lacks
\* ("none" when it has them all)
RECURSIVE FirstMissing(_, _)
FirstMissing(order, cols) ==
    IF order = <<>> THEN "none"
    ELSE IF Head(order) \notin cols THEN Head(order)
    ELSE FirstMissing(Tail(order), cols)

\* temp["channel"] = channel, for every row of one file
Tag(rows, ch) ==
    [i \in 1..Len(rows) |->
        [date |-> rows[i].date, campaign |-> rows[i].campaign, channel |-> ch,
         impression |-> rows[i].impression, clicks |-> rows[i].clicks,
         spend |-> rows[i].spend,
         attributed_revenue |-> rows[i].attributed_revenue]]

\* ConcatChannels over the files in reverse dict order
ConcatChannels_reversed(fs, hs) ==
    Flatten([i \in 1..Len(Channels) |->
                Tag(Reindex(fs[Channels[Len(Channels) + 1 - i]],
                            ColumnsOf(hs[Channels[Len(Channels) + 1 - i]])),
                    Channels[Len(Channels) + 1 - i])])

\* pd.concat(dfs, ignore_index=True) over the files in dict order
ConcatChannels(fs, hs) ==
    Flatten([i \in 1..Len(Channels) |->
                Tag(Reindex(fs[Channels[i]], ColumnsOf(hs[Channels[i]])),
                    Channels[i])])

\* the division a script uses for its ratio columns: over the denominator with its
\* zeros replaced by NaN (safe), or over the denominator as it is
Ratio(safe, a, b) == IF safe THEN SafeDiv(a, b) ELSE Div(a, b)

\* the three row-level ratio columns, with the script's division
RowMetrics(rows, safe) ==
    [i \in 1..Len(rows) |->
        [date |-> rows[i].date, campaign |-> rows[i].campaign,
         channel |-> rows[i].channel,
         impression |-> rows[i].impression, clicks |-> rows[i].clicks,
         spend |-> rows[i].spend,
         attributed_revenue |-> rows[i].attributed_revenue,
         ctr  |-> Ratio(safe, rows[i].clicks, rows[i].impression),
         cpc  |-> Ratio(safe, rows[i].spend, rows[i].clicks),
         roas |-> Ratio(safe, rows[i].attributed_revenue, rows[i].spend)]]

----------------------------------------------------------------------------
(* Aggregation: groupby(key).agg(sum) and the ratios of the sums *)

\* the sort order of the keys a groupby can meet
SeqOf(n) == [i \in 1..n |-> i]

\* GroupSum with agg "first" in place of "sum": a partition keeps its first row only
GroupSum_first(rows, f, keys) ==
    LET present == SelectSeq(keys, LAMBDA k: \E i \in 1..Len(rows): rows[i][f] = k)
        part(k) == SelectSeq(rows, LAMBDA r: r[f] = k)
    IN  [i \in 1..Len(present) |->
            [key |-> present[i],
             impression |-> part(present[i])[1].impression,
             clicks |-> part(present[i])[1].clicks,
             spend |-> part(present[i])[1].spend,
             attributed_revenue |-> part(present[i])[1].attributed_revenue]]

\* df.groupby(f).agg({...: "sum"}).reset_index(): one row per distinct key, in key
\* order, holding the sums of the four base columns over the rows of that key
GroupSum(rows, f, keys) ==
    LET present == SelectSeq(keys, LAMBDA k: \E i \in 1..Len(rows): rows[i][f] = k)
        part(k) == SelectSeq(rows, LAMBDA r: r[f] = k)
    IN  [i \in 1..Len(present) |->
            [key |-> present[i],
             impression |-> SumInt(Col(part(present[i]), "impression")),
             clicks |-> SumInt(Col(part(present[i]), "clicks")),
             spend |-> SumInt(Col(part(present[i]), "spend")),
             attributed_revenue |->
                 SumInt(Col(part(present[i]), "attributed_revenue"))]]

\* the ratio columns of an aggregate, computed from its summed columns with the
\* script's division
AggMetrics(agg, safe) ==
    [i \in 1..Len(agg) |->
        [key |-> agg[i].key,
         impression |-> agg[i].impression, clicks |-> agg[i].clicks,
         spend |-> agg[i].spend,
         attributed_revenue |-> agg[i].attributed_revenue,
         ctr  |-> Ratio(safe, agg[i].clicks, agg[i].impression),
         cpc  |-> Ratio(safe, agg[i].spend, agg[i].clicks),
         roas |-> Ratio(safe, agg[i].attributed_revenue, agg[i].spend)]]

----------------------------------------------------------------------------
(* The join with the business series *)

\* one output row of pd.merge(business, daily, on="date", how="left"): the business
\* columns, and the daily aggregate's columns as floats (NaN where no daily row
\* matched).  ctr, cpc and roas are app.py's daily_ctr, daily_cpc and daily_roas.
Matched(b, a) ==
    [date |-> b.date, total_revenue |-> b.total_revenue,
     gross_profit |-> b.gross_profit,
     impression |-> Num(a.impression), clicks |-> Num(a.clicks),
     spend |-> Num(a.spend), attributed_revenue |-> Num(a.attributed_revenue),
     ctr |-> a.ctr, cpc |-> a.cpc, roas |-> a.roas]

Unmatched(b) ==
    [date |-> b.date, total_revenue |-> b.total_revenue,
     gross_profit |-> b.gross_profit,
     impression |-> NaN, clicks |-> NaN, spend |-> NaN,
     attributed_revenue |-> NaN, ctr |-> NaN, cpc |-> NaN, roas |-> NaN]

\* MergeLeft with how="inner": a left row without a match is dropped
MergeLeft_inner(bus, daily) ==
    Flatten([i \in 1..Len(bus) |->
        LET m == SelectSeq(daily, LAMBDA a: a.key = bus[i].date)
        IN  [j \in 1..Len(m) |-> Matched(bus[i], m[j])]])

\* how="left": every left row, in the left order, once per right row of the same
\* date, or once with the right columns NaN when there is none
MergeLeft(bus, daily) ==
    Flatten([i \in 1..Len(bus) |->
        LET m == SelectSeq(daily, LAMBDA a: a.key = bus[i].date)
        IN  IF m = <<>> THEN <<Unmatched(bus[i])>>
            ELSE [j \in 1..Len(m) |-> Matched(bus[i], m[j])]])

\* app.py: the two business-context columns, over total_revenue.replace(0, np.nan)
AppRatios(rows) ==
    [i \in 1..Len(rows) |->
        [date |-> rows[i].date, total_revenue |-> rows[i].total_revenue,
         gross_profit |-> rows[i].gross_profit,
         impression |-> rows[i].impression, clicks |-> rows[i].clicks,
         spend |-> rows[i].spend,
         attributed_revenue |-> rows[i].attributed_revenue,
         ctr |-> rows[i].ctr, cpc |-> rows[i].cpc, roas |-> rows[i].roas,
         marketing_revenue_share |->
             SafeDivF(rows[i].attributed_revenue, Num(rows[i].total_revenue)),
         marketing_spend_ratio |->
             SafeDivF(rows[i].spend, Num(rows[i].total_revenue))]]

\* test.py: the three ratio columns, over total_revenue as it is
TestRatios(rows) ==
    [i \in 1..Len(rows) |->
        [date |-> rows[i].date, total_revenue |-> rows[i].total_revenue,
         gross_profit |-> rows[i].gross_profit,
         impression |-> rows[i].impression, clicks |-> rows[i].clicks,
         spend |-> rows[i].spend,
         attributed_revenue |-> rows[i].attributed_revenue,
         ctr |-> rows[i].ctr, cpc |-> rows[i].cpc, roas |-> rows[i].roas,
         marketing_revenue_pct |->
             DivF(rows[i].attributed_revenue, Num(rows[i].total_revenue)),
         marketing_spend_pct |->
             DivF(rows[i].spend, Num(rows[i].total_revenue)),
         gross_margin_pct |->
             DivF(Num(rows[i].gross_profit), Num(rows[i].total_revenue))]]

\* combined["date"] = pd.to_datetime(..., errors="coerce"), then
\* combined.dropna(subset=["date"]): the rows whose date did not parse are dropped
ConvertDates(rows) ==
    LET parsed == [i \in 1..Len(rows) |->
                      [rows[i] EXCEPT !.date = to_datetime(rows[i].date)]]
    IN  SelectSeq(parsed, LAMBDA r: r.date # NaT)

----------------------------------------------------------------------------
(* The sidebar filters and what is computed from them *)

\* filtered: the combined rows inside the date range; a range still being picked
\* (one date) leaves combined unfiltered
Filtered(rows, range) ==
    IF Len(range) = 2
    THEN SelectSeq(rows, LAMBDA r: r.date >= range[1] /\ r.date <= range[2])
    ELSE rows

\* filtered["daily_roas"].mean()
avg_roas(rows, range) == MeanF(Col(Filtered(rows, range), "roas"))

\* all_marketing[all_marketing["channel"].isin(selected_channels)]
filtered_marketing(rows, sel) == SelectSeq(rows, LAMBDA r: r.channel \in sel)

\* channel_stats: the by-channel sums and their ratios, divided as they are
ChannelStats(rows) == AggMetrics(GroupSum(rows, "channel", Channels), FALSE)

\* campaign_stats: the by-campaign sums with campaign_roas and campaign_ctr
CampaignStats(rows) ==
    LET agg == GroupSum(rows, "campaign", Campaigns)
    IN  [i \in 1..Len(agg) |->
            [key |-> agg[i].key,
             impression |-> agg[i].impression, clicks |-> agg[i].clicks,
             spend |-> agg[i].spend,
             attributed_revenue |-> agg[i].attributed_revenue,
             ctr  |-> Div(agg[i].clicks, agg[i].impression),
             roas |-> Div(agg[i].attributed_revenue, agg[i].spend)]]

\* Series.idxmax(): the first position of the largest value, NaN skipped; 0 stands
\* for the exception an empty or all-NaN column ends in (ValueError from idxmax,
\* or KeyError from .loc on the NaN label it returns)
idxmax(vals) ==
    LET live == {i \in 1..Len(vals) : ~IsNaN(vals[i])}
        top  == {i \in live : \A j \in live : ~Gt(vals[j], vals[i])}
    IN  IF live = {} THEN 0 ELSE CHOOSE i \in top : \A j \in top : i <= j

idxmin(vals) ==
    LET live == {i \in 1..Len(vals) : ~IsNaN(vals[i])}
        low  == {i \in live : \A j \in live : ~Lt(vals[j], vals[i])}
    IN  IF live = {} THEN 0 ELSE CHOOSE i \in low : \A j \in low : i <= j

----------------------------------------------------------------------------
(* Thresholds of the rules and of the detectors *)

\* campaign_stats["spend"] > 500
MaterialityFloor == 500
\* campaign_stats["campaign_roas"] < 0.8, as a fraction
ReallocRoasNum == 4
ReallocRoasDen == 5
\* underperforming["spend"].sum() * 0.5, as a fraction
ReallocFracNum == 1
ReallocFracDen == 2
\* best_roas_channel["channel_roas"] > 1.5, as a fraction
ScaleUpNum == 3
ScaleUpDen == 2
\* worst_roas_channel["channel_roas"] < 0.8, as a fraction
ReviewNum == 4
ReviewDen == 5
\* avg_roas < 1.2, as a fraction
FocusNum == 6
FocusDen == 5
\* channel_stats["channel_roas"] < 1.0
BreakEven == 1
\* test.py: campaign_summary["roas"] < 0.5, as a fraction
LowRoasNum == 1
LowRoasDen == 2
\* app.py: spend_mean +/- 2.5 * spend_std, as a fraction
AppKNum == 5
AppKDen == 2
\* test.py: spend_mean + 3 * spend_std
TestK == 3

----------------------------------------------------------------------------
(* The anomaly detectors *)

SubF(a, b) == Rat(a.n * b.d - b.n * a.d, a.d * b.d)
MulF(a, b) == Rat(a.n * b.n, a.d * b.d)

\* daily["spend"].mean(): NaN for the empty series
spend_mean(series) ==
    IF Len(series) = 0 THEN NaN ELSE Rat(SumInt(series), Len(series))

\* the square of daily["spend"].std() (ddof = 1): NaN for fewer than two days
spend_var(series) ==
    LET n == Len(series)
        m == spend_mean(series)
        sq == [i \in 1..n |-> MulF(SubF(Num(series[i]), m), SubF(Num(series[i]), m))]
        tot == SumF(sq)
    IN  IF n < 2 THEN NaN ELSE Rat(tot.n, tot.d * (n - 1))

\* AboveUpper with >= in place of >
AboveUpper_nonstrict(x, mean, var, kn, kd) ==
    /\ ~IsNaN(mean)
    /\ ~IsNaN(var)
    /\ ~Lt(Num(x), mean)
    /\ ~Lt(MulF(Num(kd * kd), MulF(SubF(Num(x), mean), SubF(Num(x), mean))),
           MulF(Num(kn * kn), var))

\* x > mean + k * std for k = kn/kd, with std given by its square: holds when x is
\* above the mean and (x - mean)^2 > k^2 * var; False when mean or std is NaN
AboveUpper(x, mean, var, kn, kd) ==
    /\ ~IsNaN(mean)
    /\ ~IsNaN(var)
    /\ Gt(Num(x), mean)
    /\ Gt(MulF(Num(kd * kd), MulF(SubF(Num(x), mean), SubF(Num(x), mean))),
          MulF(Num(kn * kn), var))

\* x < max(0, mean - k * std): Python's max(0, nan) is 0
BelowLower(x, mean, var, kn, kd) ==
    \/ x < 0
    \/ /\ ~IsNaN(mean)
       /\ ~IsNaN(var)
       /\ Lt(Num(x), mean)
       /\ Gt(MulF(Num(kd * kd), MulF(SubF(mean, Num(x)), SubF(mean, Num(x)))),
             MulF(Num(kn * kn), var))

\* AppAnomalies without the lower threshold
AppAnomalies_upper_only(daily) ==
    LET series == Col(daily, "spend")
        mean == spend_mean(series)
        var == spend_var(series)
    IN  SelectSeq(daily, LAMBDA r:
            AboveUpper(r.spend, mean, var, AppKNum, AppKDen))

\* app.py: anomalies, the days outside the band on either side
AppAnomalies(daily) ==
    LET series == Col(daily, "spend")
        mean == spend_mean(series)
        var == spend_var(series)
    IN  SelectSeq(daily, LAMBDA r:
            \/ AboveUpper(r.spend, mean, var, AppKNum, AppKDen)
            \/ BelowLower(r.spend, mean, var, AppKNum, AppKDen))

\* test.py: spikes, the days above spike_threshold
TestSpikes(daily) ==
    LET series == Col(daily, "spend")
        mean == spend_mean(series)
        var == spend_var(series)
    IN  SelectSeq(daily, LAMBDA r: AboveUpper(r.spend, mean, var, TestK, 1))

----------------------------------------------------------------------------
(* The rules *)

Rec(kind, name, date, spend, roas) ==
    [kind |-> kind, name |-> name, date |-> date, spend |-> spend, roas |-> roas]

\* df.sort_values("spend", ascending=False): the largest first
RECURSIVE SortBySpendDesc(_)
SortBySpendDesc(rows) ==
    IF rows = <<>> THEN <<>>
    ELSE LET top == CHOOSE i \in 1..Len(rows) :
                        /\ \A j \in 1..Len(rows) : rows[j].spend <= rows[i].spend
                        /\ \A j \in 1..(i - 1) : rows[j].spend < rows[i].spend
             rest == [j \in 1..(Len(rows) - 1) |->
                         IF j < top THEN rows[j] ELSE rows[j + 1]]
         IN  <<rows[top]>> \o SortBySpendDesc(rest)

\* Underperforming with spend >= 500 in place of spend > 500
Underperforming_ge(stats) ==
    SortBySpendDesc(SelectSeq(stats, LAMBDA c:
        /\ Lt(c.roas, Rat(ReallocRoasNum, ReallocRoasDen))
        /\ c.spend >= MaterialityFloor))

\* app.py: underperforming, the campaigns with campaign_roas < 0.8 and spend > 500
Underperforming(stats) ==
    SortBySpendDesc(SelectSeq(stats, LAMBDA c:
        /\ Lt(c.roas, Rat(ReallocRoasNum, ReallocRoasDen))
        /\ c.spend > MaterialityFloor))

\* app.py: potential_savings, computed only when underperforming is not empty
PotentialSavings(under) ==
    IF Len(under) > 0
    THEN Rat(SumInt(Col(under, "spend")) * ReallocFracNum, ReallocFracDen)
    ELSE NaN

\* app.py: the scale-up rule; ok = FALSE stands for the exception of idxmax
ScaleUpRule(stats) ==
    LET i == idxmax(Col(stats, "roas"))
    IN  IF i = 0 THEN [ok |-> FALSE, recs |-> <<>>]
        ELSE IF Gt(stats[i].roas, Rat(ScaleUpNum, ScaleUpDen))
        THEN [ok |-> TRUE,
              recs |-> <<Rec("scale_up", stats[i].key, 0, Num(stats[i].spend),
                             stats[i].roas)>>]
        ELSE [ok |-> TRUE, recs |-> <<>>]

\* app.py: the review rule on the channel of least roas
ReviewRule(stats) ==
    LET i == idxmin(Col(stats, "roas"))
    IN  IF i = 0 THEN [ok |-> FALSE, recs |-> <<>>]
        ELSE IF Lt(stats[i].roas, Rat(ReviewNum, ReviewDen))
        THEN [ok |-> TRUE,
              recs |-> <<Rec("optimize", stats[i].key, 0, Num(stats[i].spend),
                             stats[i].roas)>>]
        ELSE [ok |-> TRUE, recs |-> <<>>]

\* app.py: avg_roas < 1.2
FocusRule(avg) ==
    IF Lt(avg, Rat(FocusNum, FocusDen))
    THEN <<Rec("focus", "", 0, NaN, avg)>>
    ELSE <<>>

\* Series.median() of the channel spends (one to three channels)
Median(xs) ==
    LET n == Len(xs)
        rank(i) == Cardinality({j \in 1..n : xs[j] < xs[i] \/ (xs[j] = xs[i] /\ j < i)}) + 1
        at(r) == xs[CHOOSE i \in 1..n : rank(i) = r]
    IN  IF n = 0 THEN NaN
        ELSE IF n % 2 = 1 THEN Num(at((n + 1) \div 2))
        ELSE Rat(at(n \div 2) + at(n \div 2 + 1), 2)

\* app.py: high_spend_low_roas and the reallocation opportunity
ChannelReallocRule(stats) ==
    LET med == Median(Col(stats, "spend"))
        bad == SelectSeq(stats, LAMBDA c:
                   Gt(Num(c.spend), med) /\ Lt(c.roas, Num(BreakEven)))
    IN  IF Len(bad) > 0
        THEN <<Rec("reallocate", "", 0, Num(SumInt(Col(bad, "spend"))), NaN)>>
        ELSE <<>>

\* LowRoas with roas <= 0.5 in place of roas < 0.5
LowRoas_le(stats) ==
    SelectSeq(stats, LAMBDA c:
        ~IsNaN(c.roas) /\ ~Gt(c.roas, Rat(LowRoasNum, LowRoasDen)))

\* test.py: low_roas
LowRoas(stats) ==
    SelectSeq(stats, LAMBDA c: Lt(c.roas, Rat(LowRoasNum, LowRoasDen)))

\* test.py: one "Pause or review" entry per row of low_roas
PauseRecs(low) ==
    [i \in 1..Len(low) |->
        Rec("pause", low[i].key, 0, Num(low[i].spend), low[i].roas)]

\* test.py: campaign_summary.sort_values("roas", ascending=False).head(1): the rows
\* that may come first (NaN sorts last; the order of ties is the sort's)
BestCampaigns(stats) ==
    LET live == {i \in 1..Len(stats) : ~IsNaN(stats[i].roas)}
    IN  IF live = {} THEN 1..Len(stats)
        ELSE {i \in live : \A j \in live : ~Gt(stats[j].roas, stats[i].roas)}

----------------------------------------------------------------------------
(* The state machine *)

NoQuality == [total_spend |-> 0, channel_spend_sum |-> 0, mismatch |-> FALSE]

NoKpi == [total_spend |-> NaN, total_business_revenue |-> NaN,
          total_attributed_revenue |-> NaN, avg_roas |-> NaN]

\* everything a script computes, before it has run
Fresh ==
    /\ pc = "load"
    /\ all_marketing = <<>>
    /\ daily_marketing = <<>>
    /\ combined = <<>>
    /\ date_range = <<>>
    /\ selected_channels = {}
    /\ kpi = NoKpi
    /\ channel_stats = <<>>
    /\ campaign_stats = <<>>
    /\ underperforming = <<>>
    /\ potential_savings = NaN
    /\ low_roas = <<>>
    /\ anomalies = <<>>
    /\ recommendations = <<>>
    /\ quality = NoQuality
    /\ error = "none"

\* the sort order of the dates a groupby can meet
DateKeys(rows) ==
    LET top == IF rows = <<>> THEN 0
               ELSE CHOOSE d \in {rows[i].date : i \in 1..Len(rows)} :
                        \A i \in 1..Len(rows) : rows[i].date <= d
    IN  SeqOf(top)

\* the columns load_data looks up in all_marketing, in order: lines 37, 38, 39 and
\* the groupby of line 46
AppLoadLookups == <<"clicks", "impression", "spend", "attributed_revenue", "date">>

\* the columns test.py looks up in all_data for its row metrics: lines 30, 31, 32
TestLoadLookups == <<"spend", "clicks", "impression", "attributed_revenue">>

\* app.py load_data(): the unified record set with null-safe row ratios, the daily
\* aggregate with null-safe ratios, and the business-driven join
AppLoadData ==
    /\ prog = "app" /\ pc = "load"
    /\ LET missing == FirstMissing(AppLoadLookups, ConcatColumns(headers))
           am == RowMetrics(ConcatChannels(files, headers), TRUE)
           dm == AggMetrics(GroupSum(am, "date", DateKeys(am)), TRUE)
       IN  IF missing # "none"
           THEN /\ pc' = "failed" /\ error' = KeyError(missing)
                /\ UNCHANGED <<all_marketing, daily_marketing, combined>>
           ELSE /\ all_marketing' = am
                /\ daily_marketing' = dm
                /\ combined' = AppRatios(MergeLeft(business, dm))
                /\ pc' = "convert" /\ error' = error
    /\ UNCHANGED <<prog, files, headers, business, date_range, selected_channels, kpi,
                   channel_stats, campaign_stats, underperforming,
                   potential_savings, low_roas, anomalies, recommendations, quality>>

\* app.py: the date conversion of combined
AppConvertDates ==
    /\ prog = "app" /\ pc = "convert"
    /\ combined' = ConvertDates(combined)
    /\ pc' = "filters"
    /\ UNCHANGED <<prog, files, headers, business, all_marketing, daily_marketing,
                   date_range, selected_channels, kpi, channel_stats,
                   campaign_stats, underperforming, potential_savings, low_roas,
                   anomalies, recommendations, quality, error>>

\* app.py: the sidebar: a date range inside the combined dates (or a single date
\* while the range is being picked) and a subset of the channels of the data.
\* With no combined row left, min() and max() are NaT and st.date_input rejects
\* them: the script stops.
AppFilters ==
    /\ prog = "app" /\ pc = "filters"
    /\ IF combined = <<>>
       THEN /\ pc' = "failed" /\ error' = "date_input"
            /\ UNCHANGED <<date_range, selected_channels>>
       ELSE /\ LET ds == {combined[i].date : i \in 1..Len(combined)}
                   mn == CHOOSE d \in ds : \A e \in ds : d <= e
                   mx == CHOOSE d \in ds : \A e \in ds : e <= d
               IN  \E s \in mn..mx : \E e \in s..mx :
                      date_range' \in {<<s, e>>, <<s>>}
            /\ selected_channels' \in
                   SUBSET {all_marketing[i].channel : i \in 1..Len(all_marketing)}
            /\ pc' = "kpi" /\ error' = error
    /\ UNCHANGED <<prog, files, headers, business, all_marketing, daily_marketing, combined,
                   kpi, channel_stats, campaign_stats, underperforming,
                   potential_savings, low_roas, anomalies, recommendations,
                   quality>>

\* app.py: the key performance indicators of the filtered rows
AppKPIs ==
    /\ prog = "app" /\ pc = "kpi"
    /\ LET f == Filtered(combined, date_range)
       IN  kpi' = [total_spend |-> SumF(Col(f, "spend")),
                   total_business_revenue |-> Num(SumInt(Col(f, "total_revenue"))),
                   total_attributed_revenue |-> SumF(Col(f, "attributed_revenue")),
                   avg_roas |-> avg_roas(combined, date_range)]
    /\ pc' = "channel"
    /\ UNCHANGED <<prog, files, headers, business, all_marketing, daily_marketing, combined,
                   date_range, selected_channels, channel_stats, campaign_stats,
                   underperforming, potential_savings, low_roas, anomalies,
                   recommendations, quality, error>>

\* AppChannelStats with the channel filter applied to all_marketing in place
AppChannelStats_inplace ==
    /\ prog = "app" /\ pc = "channel"
    /\ all_marketing' = filtered_marketing(all_marketing, selected_channels)
    /\ channel_stats' = ChannelStats(all_marketing')
    /\ pc' = "campaign"
    /\ UNCHANGED <<prog, files, headers, business, daily_marketing, combined,
                   date_range, selected_channels, kpi, campaign_stats,
                   underperforming, potential_savings, low_roas, anomalies,
                   recommendations, quality, error>>

\* app.py: channel_stats of the selected channels
AppChannelStats ==
    /\ prog = "app" /\ pc = "channel"
    /\ channel_stats' =
           ChannelStats(filtered_marketing(all_marketing, selected_channels))
    /\ pc' = "campaign"
    /\ UNCHANGED <<prog, files, headers, business, all_marketing, daily_marketing, combined,
                   date_range, selected_channels, kpi, campaign_stats,
                   underperforming, potential_savings, low_roas, anomalies,
                   recommendations, quality, error>>

\* app.py: campaign_stats of the selected channels
AppCampaignStats ==
    /\ prog = "app" /\ pc = "campaign"
    /\ IF "campaign" \notin ConcatColumns(headers)
       THEN /\ pc' = "failed" /\ error' = KeyError("campaign")
            /\ UNCHANGED campaign_stats
       ELSE /\ campaign_stats' =
                   CampaignStats(filtered_marketing(all_marketing, selected_channels))
            /\ pc' = "insights" /\ error' = error
    /\ UNCHANGED <<prog, files, headers, business, all_marketing, daily_marketing, combined,
                   date_range, selected_channels, kpi, channel_stats,
                   underperforming, potential_savings, low_roas, anomalies,
                   recommendations, quality>>

\* app.py: best_channel and worst_channel; the exception of idxmax or idxmin stops
\* the script
AppInsights ==
    /\ prog = "app" /\ pc = "insights"
    /\ IF idxmax(Col(channel_stats, "roas")) = 0
          \/ idxmin(Col(channel_stats, "roas")) = 0
       THEN pc' = "failed" /\ error' = "idxmax"
       ELSE pc' = "optimize" /\ error' = error
    /\ UNCHANGED <<prog, files, headers, business, all_marketing, daily_marketing, combined,
                   date_range, selected_channels, kpi, channel_stats,
                   campaign_stats, underperforming, potential_savings, low_roas,
                   anomalies, recommendations, quality>>

\* app.py: the optimization opportunities
AppOptimization ==
    /\ prog = "app" /\ pc = "optimize"
    /\ underperforming' = Underperforming(campaign_stats)
    /\ potential_savings' = PotentialSavings(underperforming')
    /\ pc' = "anomaly"
    /\ UNCHANGED <<prog, files, headers, business, all_marketing, daily_marketing, combined,
                   date_range, selected_channels, kpi, channel_stats,
                   campaign_stats, low_roas, anomalies, recommendations, quality, error>>

\* app.py: the anomaly detection over daily_marketing
AppAnomalyDetection ==
    /\ prog = "app" /\ pc = "anomaly"
    /\ anomalies' = AppAnomalies(daily_marketing)
    /\ pc' = "recommend"
    /\ UNCHANGED <<prog, files, headers, business, all_marketing, daily_marketing, combined,
                   date_range, selected_channels, kpi, channel_stats,
                   campaign_stats, underperforming, potential_savings, low_roas,
                   recommendations, quality, error>>

\* app.py: the strategic recommendations, rule after rule
AppRecommendations ==
    /\ prog = "app" /\ pc = "recommend"
    /\ LET up == ScaleUpRule(channel_stats)
           rv == ReviewRule(channel_stats)
       IN  IF ~up.ok
           THEN /\ recommendations' = <<>>
                /\ pc' = "failed" /\ error' = "idxmax"
           ELSE IF ~rv.ok
           THEN /\ recommendations' = up.recs
                /\ pc' = "failed" /\ error' = "idxmin"
           ELSE /\ recommendations' =
                       up.recs \o rv.recs \o FocusRule(kpi.avg_roas)
                       \o ChannelReallocRule(channel_stats)
                /\ pc' = "done" /\ error' = error
    /\ UNCHANGED <<prog, files, headers, business, all_marketing, daily_marketing, combined,
                   date_range, selected_channels, kpi, channel_stats,
                   campaign_stats, underperforming, potential_savings, low_roas,
                   anomalies, quality>>

\* Streamlit runs the script again, top to bottom, when a widget changes
AppRerun ==
    /\ prog = "app" /\ pc \in {"done", "failed"}
    /\ pc' = "load"
    /\ all_marketing' = <<>>
    /\ daily_marketing' = <<>>
    /\ combined' = <<>>
    /\ date_range' = <<>>
    /\ selected_channels' = {}
    /\ kpi' = NoKpi
    /\ channel_stats' = <<>>
    /\ campaign_stats' = <<>>
    /\ underperforming' = <<>>
    /\ potential_savings' = NaN
    /\ anomalies' = <<>>
    /\ recommendations' = <<>>
    /\ error' = "none"
    /\ UNCHANGED <<prog, files, headers, business, low_roas, quality>>

\* test.py: all_data, with the row ratios divided as they are
TestLoad ==
    /\ prog = "test" /\ pc = "load"
    /\ LET missing == FirstMissing(TestLoadLookups, ConcatColumns(headers))
       IN  IF missing # "none"
           THEN /\ pc' = "failed" /\ error' = KeyError(missing)
                /\ UNCHANGED all_marketing
           ELSE /\ all_marketing' = RowMetrics(ConcatChannels(files, headers), FALSE)
                /\ pc' = "campaign" /\ error' = error
    /\ UNCHANGED <<prog, files, headers, business, daily_marketing, combined, date_range,
                   selected_channels, kpi, channel_stats, campaign_stats,
                   underperforming, potential_savings, low_roas, anomalies,
                   recommendations, quality>>

\* test.py: campaign_summary
TestCampaignSummary ==
    /\ prog = "test" /\ pc = "campaign"
    /\ IF "campaign" \notin ConcatColumns(headers)
       THEN /\ pc' = "failed" /\ error' = KeyError("campaign")
            /\ UNCHANGED campaign_stats
       ELSE /\ campaign_stats' =
                   AggMetrics(GroupSum(all_marketing, "campaign", Campaigns), FALSE)
            /\ pc' = "daily" /\ error' = error
    /\ UNCHANGED <<prog, files, headers, business, all_marketing, daily_marketing, combined,
                   date_range, selected_channels, kpi, channel_stats,
                   underperforming, potential_savings, low_roas, anomalies,
                   recommendations, quality>>

\* test.py: daily_summary
TestDailySummary ==
    /\ prog = "test" /\ pc = "daily"
    /\ IF "date" \notin ConcatColumns(headers)
       THEN /\ pc' = "failed" /\ error' = KeyError("date")
            /\ UNCHANGED daily_marketing
       ELSE /\ daily_marketing' =
                   AggMetrics(GroupSum(all_marketing, "date", DateKeys(all_marketing)),
                              FALSE)
            /\ pc' = "channel" /\ error' = error
    /\ UNCHANGED <<prog, files, headers, business, all_marketing, combined, date_range,
                   selected_channels, kpi, channel_stats, campaign_stats,
                   underperforming, potential_savings, low_roas, anomalies,
                   recommendations, quality>>

\* test.py: channel_summary
TestChannelSummary ==
    /\ prog = "test" /\ pc = "channel"
    /\ channel_stats' =
           AggMetrics(GroupSum(all_marketing, "channel", Channels), FALSE)
    /\ pc' = "business"
    /\ UNCHANGED <<prog, files, headers, business, all_marketing, daily_marketing, combined,
                   date_range, selected_channels, kpi, campaign_stats,
                   underperforming, potential_savings, low_roas, anomalies,
                   recommendations, quality, error>>

\* test.py: the business integration
TestBusiness ==
    /\ prog = "test" /\ pc = "business"
    /\ combined' = TestRatios(MergeLeft(business, daily_marketing))
    /\ pc' = "quality"
    /\ UNCHANGED <<prog, files, headers, business, all_marketing, daily_marketing,
                   date_range, selected_channels, kpi, channel_stats,
                   campaign_stats, underperforming, potential_savings, low_roas,
                   anomalies, recommendations, quality, error>>

\* test.py: sanity check 4: the spend of all_data against the spend of
\* channel_summary
TestQualityChecks ==
    /\ prog = "test" /\ pc = "quality"
    /\ LET total == SumInt(Col(all_marketing, "spend"))
           bych == SumInt(Col(channel_stats, "spend"))
       IN  quality' = [total_spend |-> total, channel_spend_sum |-> bych,
                       mismatch |-> Abs(total - bych) > 0]
    /\ pc' = "anomaly"
    /\ UNCHANGED <<prog, files, headers, business, all_marketing, daily_marketing, combined,
                   date_range, selected_channels, kpi, channel_stats,
                   campaign_stats, underperforming, potential_savings, low_roas,
                   anomalies, recommendations, error>>

\* test.py: the anomaly detection: low_roas and spikes
TestAnomalyDetection ==
    /\ prog = "test" /\ pc = "anomaly"
    /\ low_roas' = LowRoas(campaign_stats)
    /\ anomalies' = TestSpikes(daily_marketing)
    /\ pc' = "recommend"
    /\ UNCHANGED <<prog, files, headers, business, all_marketing, daily_marketing, combined,
                   date_range, selected_channels, kpi, channel_stats,
                   campaign_stats, underperforming, potential_savings,
                   recommendations, quality, error>>

\* test.py: the recommendations.  The spike loop calls row['date'].date() on the
\* date string read from the CSV, which raises AttributeError on the first spike;
\* the loop over low_roas has run by then.
TestRecommendations ==
    /\ prog = "test" /\ pc = "recommend"
    /\ IF Len(anomalies) > 0
       THEN /\ recommendations' = PauseRecs(low_roas)
            /\ pc' = "failed" /\ error' = "AttributeError"
       ELSE /\ IF campaign_stats = <<>>
               THEN recommendations' = PauseRecs(low_roas)
               ELSE \E i \in BestCampaigns(campaign_stats) :
                        recommendations' =
                            PauseRecs(low_roas)
                            \o <<Rec("scale", campaign_stats[i].key, 0,
                                     Num(campaign_stats[i].spend),
                                     campaign_stats[i].roas)>>
            /\ pc' = "done" /\ error' = error
    /\ UNCHANGED <<prog, files, headers, business, all_marketing, daily_marketing, combined,
                   date_range, selected_channels, kpi, channel_stats,
                   campaign_stats, underperforming, potential_savings, low_roas,
                   anomalies, quality>>

Next ==
    \/ AppLoadData
    \/ AppConvertDates
    \/ AppFilters
    \/ AppKPIs
    \/ AppChannelStats
    \/ AppCampaignStats
    \/ AppInsights
    \/ AppOptimization
    \/ AppAnomalyDetection
    \/ AppRecommendations
    \/ AppRerun
    \/ TestLoad
    \/ TestCampaignSummary
    \/ TestDailySummary
    \/ TestChannelSummary
    \/ TestBusiness
    \/ TestQualityChecks
    \/ TestAnomalyDetection
    \/ TestRecommendations

----------------------------------------------------------------------------
(* The inputs: what the CSV files hold *)

\* the largest spend of one row
MaxSpend == 2

Row(d, c, i, k, sp, r) ==
    [date |-> d, campaign |-> c, impression |-> i, clicks |-> k, spend |-> sp,
     attributed_revenue |-> r]

Biz(d, t, g) == [date |-> d, total_revenue |-> t, gross_profit |-> g]

CampaignSet == {Campaigns[i] : i \in 1..Len(Campaigns)}

SeqsUpTo(S, n) == UNION {[1..m -> S] : m \in 0..n}

\* rows of one day, over both campaigns, with zero and non-zero quantities
AggRows ==
    {Row(1, c, i, k, sp, r) :
        c \in CampaignSet, i \in 0..1, k \in 0..1, sp \in 0..MaxSpend, r \in 0..1}

\* at most two rows in all, in Facebook.csv and Google.csv; one business day
InitAgg ==
    /\ prog \in {"app", "test"}
    /\ \E fb \in SeqsUpTo(AggRows, 2), gg \in SeqsUpTo(AggRows, 1) :
          /\ Len(fb) + Len(gg) <= 2
          /\ files = [c \in {"Facebook", "Google", "TikTok"} |->
                         IF c = "Facebook" THEN fb
                         ELSE IF c = "Google" THEN gg ELSE <<>>]
    /\ business = <<Biz(1, 1, 1)>>
    /\ headers = [c \in {"Facebook", "Google", "TikTok"} |-> RequiredCols]
    /\ Fresh

Spec == InitAgg /\ [][Next]_vars

\* the last date of Business.csv; the channel files may run one day longer
MaxDate == 2

\* one row a day, on any of the days, with zero and non-zero spend and revenue
JoinRows(d) == {Row(d, "Brand", 1, 1, sp, r) : sp \in {0, 1, 2}, r \in {0, 1}}

DailyFiles ==
    UNION {[1..m -> UNION {JoinRows(d) : d \in 1..(MaxDate + 1)}] : m \in 0..2}

\* business rows with dates that parse and dates that do not, and with zero revenue
BizRows == {Biz(d, t, 1) : d \in {BadDate} \cup 1..MaxDate, t \in {0, 1}}

\* Facebook.csv holds at most two days, in date order; Business.csv at most two rows
InitJoin ==
    /\ prog \in {"app", "test"}
    /\ \E fb \in DailyFiles :
          /\ \A i \in 1..Len(fb) : \A j \in 1..Len(fb) : i < j => fb[i].date < fb[j].date
          /\ files = [c \in {"Facebook", "Google", "TikTok"} |->
                         IF c = "Facebook" THEN fb ELSE <<>>]
    /\ business \in SeqsUpTo(BizRows, 2)
    /\ headers = [c \in {"Facebook", "Google", "TikTok"} |-> RequiredCols]
    /\ Fresh

SpecJoin == InitJoin /\ [][Next]_vars

\* the longest daily series
MaxDays == 11

\* one row a day for the first n days, each day's spend 0 or 1
InitDetect ==
    /\ prog \in {"app", "test"}
    /\ \E n \in 0..MaxDays : \E sp \in [1..n -> {0, 1}] :
          files = [c \in {"Facebook", "Google", "TikTok"} |->
                      IF c = "Facebook"
                      THEN [i \in 1..n |-> Row(i, "Brand", 1, 1, sp[i], 1)]
                      ELSE <<>>]
    /\ business = <<Biz(1, 1, 1)>>
    /\ headers = [c \in {"Facebook", "Google", "TikTok"} |-> RequiredCols]
    /\ Fresh

SpecDetect == InitDetect /\ [][Next]_vars

\* rows on either side of the rules' thresholds: spend around the materiality floor,
\* revenue at 0, 0.4, 0.5, 0.6, 0.8, 1.5 and 1.6 times the spend, and revenue
\* without spend
RuleRows ==
    {Row(1, c, 1, 1, sp, (sp * t) \div 10) :
        c \in CampaignSet, sp \in {0, 10, 500, 510}, t \in {0, 4, 5, 6, 8, 15, 16}}
    \cup {Row(1, c, 1, 1, 0, 5) : c \in CampaignSet}

InitRules ==
    /\ prog \in {"app", "test"}
    /\ \E fb \in SeqsUpTo(RuleRows, 2), gg \in SeqsUpTo(RuleRows, 1) :
          /\ Len(fb) + Len(gg) <= 2
          /\ files = [c \in {"Facebook", "Google", "TikTok"} |->
                         IF c = "Facebook" THEN fb
                         ELSE IF c = "Google" THEN gg ELSE <<>>]
    /\ business = <<Biz(1, 1, 1)>>
    /\ headers = [c \in {"Facebook", "Google", "TikTok"} |-> RequiredCols]
    /\ Fresh

SpecRules == InitRules /\ [][Next]_vars

\* two rows that differ in every base column but the campaign, on two days
MergeRows == {Row(d, "Brand", d, d, d, 3 - d) : d \in 1..2}

\* every channel file holds up to two rows, in any order; Business.csv has both days
InitMerge ==
    /\ prog \in {"app", "test"}
    /\ files \in [{"Facebook", "Google", "TikTok"} -> SeqsUpTo(MergeRows, 2)]
    /\ business = <<Biz(1, 1, 1), Biz(2, 1, 1)>>
    /\ headers = [c \in {"Facebook", "Google", "TikTok"} |-> RequiredCols]
    /\ Fresh

SpecMerge == InitMerge /\ [][Next]_vars

\* the header line of each file as it is spelled in the file
RawHeader(c) ==
    CASE c = "Facebook" ->
            {"date", "campaign", "impression", "clicks", "spend", "attributed_revenue"}
      [] c = "Google" ->
            {"Date", "Campaign", "Impression", "Clicks", "Spend", "Attributed Revenue"}
      [] c = "TikTok" ->
            {" date", "campaign ", " Impression", "clicks ", " spend ",
             "attributed revenue"}

\* a header line with all six columns, or with any one of them left out
HeaderLines(c) == {RawHeader(c)} \cup {RawHeader(c) \ {x} : x \in RawHeader(c)}

\* one row in every file, over two days and two campaigns; each file's header
\* line lacks at most one column
InitSchema ==
    /\ prog \in {"app", "test"}
    /\ files = [c \in {"Facebook", "Google", "TikTok"} |->
                   IF c = "Facebook" THEN <<Row(1, "Brand", 1, 1, 1, 1)>>
                   ELSE IF c = "Google" THEN <<Row(1, "Promo", 1, 1, 2, 1)>>
                   ELSE <<Row(2, "Brand", 1, 1, 1, 2)>>]
    /\ headers \in [{"Facebook", "Google", "TikTok"} -> UNION {HeaderLines(c) : c \in {"Facebook", "Google", "TikTok"}}]
    /\ \A c \in {"Facebook", "Google", "TikTok"} : headers[c] \in HeaderLines(c)
    /\ business = <<Biz(1, 1, 1), Biz(2, 1, 1)>>
    /\ Fresh

SpecSchema == InitSchema /\ [][Next]_vars

----------------------------------------------------------------------------
(* Where a run stands *)

\* the exceptions that stop a script while it loads
AppLoadErrors == {KeyError(AppLoadLookups[i]) : i \in 1..Len(AppLoadLookups)}
TestLoadErrors == {KeyError(TestLoadLookups[i]) : i \in 1..Len(TestLoadLookups)}

\* the exceptions that stop app.py before its key performance indicators
AppEarlyErrors == AppLoadErrors \cup {"date_input"}

\* test.py stopped in its spike loop, the last section but one
TestSpikeFailure == prog = "test" /\ pc = "failed" /\ error = "AttributeError"

\* app.py has computed channel_stats (a run that failed did so after it)
AppChannelDone ==
    /\ prog = "app"
    /\ \/ pc \in {"campaign", "insights", "optimize", "anomaly", "recommend", "done"}
       \/ pc = "failed" /\ error \notin AppEarlyErrors

AppCampaignDone ==
    /\ prog = "app"
    /\ \/ pc \in {"insights", "optimize", "anomaly", "recommend", "done"}
       \/ pc = "failed" /\ error \notin AppEarlyErrors \cup {KeyError("campaign")}

\* test.py has computed channel_summary
TestChannelDone ==
    \/ prog = "test" /\ pc \in {"business", "quality", "anomaly", "recommend", "done"}
    \/ TestSpikeFailure

TestDailyDone ==
    \/ prog = "test" /\ pc \in {"channel", "business", "quality", "anomaly", "recommend",
                                "done"}
    \/ TestSpikeFailure

TestCampaignDone ==
    \/ prog = "test" /\ pc \notin {"load", "campaign", "failed"}
    \/ TestSpikeFailure
    \/ prog = "test" /\ pc = "failed" /\ error = KeyError("date")

BaseCols == {"impression", "clicks", "spend", "attributed_revenue"}

----------------------------------------------------------------------------
(* C1: conservation of the base quantities under the by-channel aggregation *)

\* the records that enter app.py's by-channel aggregation
Entering == SelectSeq(all_marketing, LAMBDA r: r.channel \in selected_channels)

Conserved(rows, stats) ==
    /\ \A f \in BaseCols : SumInt(Col(rows, f)) = SumInt(Col(stats, f))
    /\ \A i \in 1..Len(rows) :
          Cardinality({j \in 1..Len(stats) : stats[j].key = rows[i].channel}) = 1

\* C1: for every record set and every channel selection, each of spend, impressions,
\* clicks and attributed_revenue summed over the records that enter the by-channel
\* aggregation equals the same column summed over the by-channel aggregate rows,
\* and every such record belongs to exactly one aggregate row; test.py's own
\* sanity check of the spend totals finds no mismatch.
C1_Conservation ==
    /\ AppChannelDone => Conserved(Entering, channel_stats)
    /\ TestChannelDone => Conserved(all_marketing, channel_stats)
    /\ (prog = "test" /\ pc \in {"anomaly", "recommend", "done", "failed"})
          => ~quality.mismatch

\* two records of one selected channel were summed into one aggregate row while
\* another channel's record was filtered out
C1_Witness ==
    /\ prog = "app" /\ pc = "campaign"
    /\ Len(all_marketing) = 2
    /\ all_marketing[1].channel = "Facebook" /\ all_marketing[2].channel = "Facebook"
    /\ all_marketing[1].spend > 0 /\ all_marketing[2].spend > 0
    /\ selected_channels = {"Facebook"}
    /\ Len(channel_stats) = 1

----------------------------------------------------------------------------
(* C3: null-safe division at every level *)

\* a ratio cell is null-safe: NaN when the divisor is zero, and never infinite
NullSafe(v, den) == (den = 0 => IsNaN(v)) /\ ~IsInf(v)

NullSafeRows(rows) ==
    \A i \in 1..Len(rows) :
        /\ NullSafe(rows[i].ctr, rows[i].impression)
        /\ NullSafe(rows[i].roas, rows[i].spend)
        /\ ("cpc" \in DOMAIN rows[i] => NullSafe(rows[i].cpc, rows[i].clicks))

\* C3: every ctr, cpc and roas the scripts derive, at row level and at the daily,
\* campaign and channel level, is NaN when its divisor is zero and is never
\* infinite.
C3_NullSafeEverywhere ==
    /\ NullSafeRows(all_marketing)
    /\ NullSafeRows(daily_marketing)
    /\ NullSafeRows(campaign_stats)
    /\ NullSafeRows(channel_stats)

\* the same statement for app.py's channel aggregate alone
C3_AppChannelNullSafe ==
    prog = "app" => NullSafeRows(channel_stats)

----------------------------------------------------------------------------
(* C2: every ratio is the ratio of the sums *)

AppKpiDone ==
    /\ prog = "app"
    /\ \/ pc \in {"channel", "campaign", "insights", "optimize", "anomaly",
                  "recommend", "done"}
       \/ pc = "failed" /\ error \notin AppEarlyErrors

\* each aggregate row's ratios are the sums of its group divided by one another
\* (wherever the divisor's sum is not zero)
RatioOfSums(stats, rows, f) ==
    \A i \in 1..Len(stats) :
        LET part == SelectSeq(rows, LAMBDA r: r[f] = stats[i].key)
            imp == SumInt(Col(part, "impression"))
            clk == SumInt(Col(part, "clicks"))
            spd == SumInt(Col(part, "spend"))
            rev == SumInt(Col(part, "attributed_revenue"))
        IN  /\ imp # 0 => stats[i].ctr = Rat(clk, imp)
            /\ spd # 0 => stats[i].roas = Rat(rev, spd)
            /\ (clk # 0 /\ "cpc" \in DOMAIN stats[i]) => stats[i].cpc = Rat(spd, clk)

\* the overall ROAS figure is the attributed revenue of the selected date range
\* divided by its spend
OverallRatioOfSums ==
    LET f == Filtered(combined, date_range)
        spd == SumF(Col(f, "spend"))
        rev == SumF(Col(f, "attributed_revenue"))
    IN  spd.n # 0 => kpi.avg_roas = Rat(rev.n * spd.d, rev.d * spd.n)

\* C2: every ROAS, CTR and CPC value, per day, per campaign, per channel and for the
\* selected date range as a whole, is the sum of the numerator over the group's
\* records divided by the sum of the denominator, never a mean of lower-level ratios.
C2_RatioOfSums ==
    /\ (prog = "app" /\ pc # "load") => RatioOfSums(daily_marketing, all_marketing, "date")
    /\ TestDailyDone => RatioOfSums(daily_marketing, all_marketing, "date")
    /\ AppChannelDone => RatioOfSums(channel_stats, Entering, "channel")
    /\ TestChannelDone => RatioOfSums(channel_stats, all_marketing, "channel")
    /\ AppCampaignDone => RatioOfSums(campaign_stats, Entering, "campaign")
    /\ TestCampaignDone => RatioOfSums(campaign_stats, all_marketing, "campaign")
    /\ AppKpiDone => OverallRatioOfSums

\* the aggregate levels alone: the by-day, by-campaign and by-channel ratios
C2_AggregateLevels ==
    /\ (prog = "app" /\ pc # "load") => RatioOfSums(daily_marketing, all_marketing, "date")
    /\ TestDailyDone => RatioOfSums(daily_marketing, all_marketing, "date")
    /\ AppChannelDone => RatioOfSums(channel_stats, Entering, "channel")
    /\ TestChannelDone => RatioOfSums(channel_stats, all_marketing, "channel")
    /\ AppCampaignDone => RatioOfSums(campaign_stats, Entering, "campaign")
    /\ TestCampaignDone => RatioOfSums(campaign_stats, all_marketing, "campaign")

----------------------------------------------------------------------------
(* C4: the business-driven left join *)

\* load_data has returned and the dates are not yet converted (app.py), or the
\* business integration has run (test.py)
JoinDone ==
    \/ prog = "app" /\ pc = "convert"
    \/ prog = "test" /\ pc \in {"quality", "anomaly", "recommend", "done"}
    \/ TestSpikeFailure

\* app.py has converted the dates of combined
ConversionDone ==
    /\ prog = "app" /\ pc \notin {"load", "convert"}
    /\ ~(pc = "failed" /\ error \in AppLoadErrors)

MarketingCols == {"impression", "clicks", "spend", "attributed_revenue", "ctr", "cpc", "roas"}

\* rows holds exactly one row for every record of bus, in order, and no other row;
\* its marketing fields are the day's sums where the day has marketing records and
\* are absent (NaN, not zero) where it has none
OneRowPerBusinessRecord(bus, rows) ==
    /\ Len(rows) = Len(bus)
    /\ \A i \in 1..Len(rows) :
          LET day == SelectSeq(all_marketing, LAMBDA r: r.date = bus[i].date)
          IN  /\ rows[i].date = bus[i].date
              /\ rows[i].total_revenue = bus[i].total_revenue
              /\ IF day = <<>>
                 THEN \A f \in MarketingCols : IsNaN(rows[i][f])
                 ELSE \A f \in BaseCols : rows[i][f] = Num(SumInt(Col(day, f)))

\* C4 as amended: load_data's combined output (and test.py's) has exactly one row for
\* every business record and no others, a marketing-only date never appears, and a
\* business date without marketing records has its marketing fields absent; after
\* the dashboard's date conversion the combined set has exactly one row for every
\* business record whose date parses, and the records whose date does not parse
\* are dropped.
C4_LeftJoin ==
    /\ JoinDone => OneRowPerBusinessRecord(business, combined)
    /\ ConversionDone =>
          OneRowPerBusinessRecord(
              SelectSeq(business, LAMBDA b: to_datetime(b.date) # NaT), combined)

\* C4 as stated: one row for every business record, also after the date conversion
C4_AllBusinessRowsKept ==
    (JoinDone \/ ConversionDone) => OneRowPerBusinessRecord(business, combined)

\* after the conversion: a business record with an unparseable date was dropped, a
\* business day without marketing is kept with absent fields, and a marketing-only
\* day is not in the output
C4_Witness ==
    /\ prog = "app" /\ pc = "filters"
    /\ \E i \in 1..Len(business) : business[i].date = BadDate
    /\ \E i \in 1..Len(combined) : IsNaN(combined[i].spend)
    /\ \E i \in 1..Len(all_marketing) :
          \A j \in 1..Len(business) : business[j].date # all_marketing[i].date
    /\ Len(combined) = 1

----------------------------------------------------------------------------
(* C5: the ratios derived after the join *)

\* a post-join ratio: NaN when total_revenue is zero or the marketing field is
\* absent, and the quotient otherwise
PostJoinRatio(v, field, total) ==
    IF total = 0 \/ IsNaN(field) THEN IsNaN(v)
    ELSE v = Rat(field.n, field.d * total)

\* C5: in every combined record the revenue share is attributed_revenue /
\* total_revenue and the spend ratio is spend / total_revenue; both are undefined
\* (NaN, never infinite) when total_revenue is zero or the marketing fields are absent.
C5_PostJoinRatios ==
    /\ (prog = "app" /\ pc # "load") =>
          \A i \in 1..Len(combined) :
              /\ PostJoinRatio(combined[i].marketing_revenue_share,
                               combined[i].attributed_revenue, combined[i].total_revenue)
              /\ PostJoinRatio(combined[i].marketing_spend_ratio,
                               combined[i].spend, combined[i].total_revenue)
    /\ prog = "test" =>
          \A i \in 1..Len(combined) :
              /\ PostJoinRatio(combined[i].marketing_revenue_pct,
                               combined[i].attributed_revenue, combined[i].total_revenue)
              /\ PostJoinRatio(combined[i].marketing_spend_pct,
                               combined[i].spend, combined[i].total_revenue)

\* the same statement for app.py's load_data alone
C5_AppPostJoinRatios ==
    (prog = "app" /\ pc # "load") =>
        \A i \in 1..Len(combined) :
            /\ PostJoinRatio(combined[i].marketing_revenue_share,
                             combined[i].attributed_revenue, combined[i].total_revenue)
            /\ PostJoinRatio(combined[i].marketing_spend_ratio,
                             combined[i].spend, combined[i].total_revenue)

----------------------------------------------------------------------------
(* C6, C7: the anomaly band *)

AppDetectDone == prog = "app" /\ pc \in {"recommend", "done"}
TestDetectDone == (prog = "test" /\ pc \in {"recommend", "done"}) \/ TestSpikeFailure

\* the daily spend series: its length, its sum and the sum of its squares
DailySpend == Col(daily_marketing, "spend")
DaysN == Len(DailySpend)
DaysS == SumInt(DailySpend)
DaysQ == SumInt([i \in 1..DaysN |-> DailySpend[i] * DailySpend[i]])

\* |x - m| > k * s for the mean m = S/n, the sample deviation
\* s = sqrt((n*Q - S^2) / (n*(n-1))) and k = kn/kd, cleared of fractions and roots
Beyond(x, kn, kd) ==
    /\ DaysN >= 2
    /\ kd * kd * (DaysN * x - DaysS) * (DaysN * x - DaysS) * (DaysN - 1)
          > kn * kn * DaysN * (DaysN * DaysQ - DaysS * DaysS)

\* x > m + k*s, and x < max(0, m - k*s) for a spend x >= 0
High(x, kn, kd) == DaysN * x > DaysS /\ Beyond(x, kn, kd)
Low(x, kn, kd)  == DaysN * x < DaysS /\ Beyond(x, kn, kd)

\* C6 as amended: app.py's detector emits a day if and only if its spend is strictly
\* above m + 2.5 s or strictly below max(0, m - 2.5 s); test.py's spike detector
\* emits a day if and only if its spend is strictly above m + 3 s, and has no lower
\* threshold.
C6_AnomalyBand ==
    /\ AppDetectDone =>
          anomalies = SelectSeq(daily_marketing, LAMBDA r:
                          High(r.spend, 5, 2) \/ Low(r.spend, 5, 2))
    /\ TestDetectDone =>
          anomalies = SelectSeq(daily_marketing, LAMBDA r: High(r.spend, 3, 1))

\* C6 as stated: every detector emits exactly the days outside the two-sided band of
\* its multiplier
C6_EveryDetectorTwoSided ==
    /\ AppDetectDone =>
          anomalies = SelectSeq(daily_marketing, LAMBDA r:
                          High(r.spend, 5, 2) \/ Low(r.spend, 5, 2))
    /\ TestDetectDone =>
          anomalies = SelectSeq(daily_marketing, LAMBDA r:
                          High(r.spend, 3, 1) \/ Low(r.spend, 3, 1))

\* app.py emitted a day whose spend lies below the band
C6_Witness ==
    /\ AppDetectDone
    /\ \E i \in 1..Len(anomalies) : DaysN * anomalies[i].spend < DaysS

\* test.py emitted spikes, all of them above the mean
C6_HighWitness ==
    /\ Len(anomalies) > 0
    /\ \A i \in 1..Len(anomalies) : DaysN * anomalies[i].spend > DaysS
    /\ TestDetectDone

\* C7: a daily series of fewer than two days (the empty series included), or one
\* whose days all have the same spend, yields no anomaly in either detector.
C7_DegenerateSeries ==
    ((AppDetectDone \/ TestDetectDone)
        /\ (DaysN < 2 \/ \A i \in 1..DaysN : DailySpend[i] = DailySpend[1]))
    => anomalies = <<>>

\* app.py's detector ran on a series of several days of zero spend
C7_Witness ==
    /\ AppDetectDone
    /\ DaysN >= 2
    /\ \A i \in 1..DaysN : DailySpend[i] = 0
    /\ anomalies = <<>>

\* test.py's detector ran on the empty series
C7_ShortWitness ==
    /\ TestDetectDone
    /\ DaysN = 0
    /\ anomalies = <<>>

----------------------------------------------------------------------------
(* C8: the low-ROAS rule of test.py *)

TestRecsDone == (prog = "test" /\ pc = "done") \/ TestSpikeFailure

CampaignRows(rows, c) == SelectSeq(rows, LAMBDA r: r.campaign = c)
SpendOf(rows) == SumInt(Col(rows, "spend"))
RevenueOf(rows) == SumInt(Col(rows, "attributed_revenue"))

PauseRecsFor(c) ==
    {i \in 1..Len(recommendations) :
        recommendations[i].kind = "pause" /\ recommendations[i].name = c}

\* C8: a pause recommendation is emitted for a campaign if and only if its summed
\* spend is not zero (its roas is defined) and its summed attributed revenue is
\* strictly below half of it; there is exactly one per such campaign, citing the
\* campaign, its summed spend and its roas.
C8_LowRoasRule ==
    TestRecsDone =>
        \A c \in CampaignSet :
            LET part == CampaignRows(all_marketing, c)
                spd == SpendOf(part)
                rev == RevenueOf(part)
            IN  IF part # <<>> /\ spd # 0 /\ 2 * rev < spd
                THEN /\ Cardinality(PauseRecsFor(c)) = 1
                     /\ \A i \in PauseRecsFor(c) :
                           /\ recommendations[i].spend = Num(spd)
                           /\ recommendations[i].roas = Rat(rev, spd)
                ELSE PauseRecsFor(c) = {}

\* one campaign at roas 0.4 was recommended and one at exactly 0.5 was not
C8_Witness ==
    /\ TestRecsDone
    /\ \E c \in CampaignSet :
          /\ 5 * RevenueOf(CampaignRows(all_marketing, c))
                = 2 * SpendOf(CampaignRows(all_marketing, c))
          /\ SpendOf(CampaignRows(all_marketing, c)) > 0
          /\ PauseRecsFor(c) # {}
    /\ \E c \in CampaignSet :
          /\ 2 * RevenueOf(CampaignRows(all_marketing, c))
                = SpendOf(CampaignRows(all_marketing, c))
          /\ SpendOf(CampaignRows(all_marketing, c)) > 0
          /\ PauseRecsFor(c) = {}

\* a campaign whose roas is undefined (no spend) was not recommended
C8_UndefinedWitness ==
    /\ TestRecsDone
    /\ \E c \in CampaignSet :
          /\ CampaignRows(all_marketing, c) # <<>>
          /\ SpendOf(CampaignRows(all_marketing, c)) = 0
          /\ PauseRecsFor(c) = {}

----------------------------------------------------------------------------
(* C9: the reallocation rule of app.py *)

AppOptimizeDone == prog = "app" /\ pc \in {"anomaly", "recommend", "done"}

\* the campaigns of the selected channels whose summed spend is above the floor and
\* whose roas is below 0.8
Candidates(floor) ==
    {c \in CampaignSet :
        LET part == CampaignRows(Entering, c)
        IN  /\ part # <<>>
            /\ SpendOf(part) > floor
            /\ 5 * RevenueOf(part) < 4 * SpendOf(part)}

RECURSIVE SpendOfSet(_)
SpendOfSet(cs) ==
    IF cs = {} THEN 0
    ELSE LET c == CHOOSE x \in cs : TRUE
         IN  SpendOf(CampaignRows(Entering, c)) + SpendOfSet(cs \ {c})

ReallocationIs(floor) ==
    /\ {underperforming[i].key : i \in 1..Len(underperforming)} = Candidates(floor)
    /\ Len(underperforming) = Cardinality(Candidates(floor))
    /\ IF Candidates(floor) = {}
       THEN IsNaN(potential_savings)
       ELSE potential_savings = Rat(SpendOfSet(Candidates(floor)), 2)

\* C9 as amended: the reallocation candidates are exactly the campaigns whose summed
\* spend is above the floor of 500 and whose roas is below 0.8; the reported amount
\* is half of their combined spend, and no amount is reported when there is none.
C9_ReallocationRule == AppOptimizeDone => ReallocationIs(500)

\* C9 as stated: the floor is 100
C9_FloorOf100 == AppOptimizeDone => ReallocationIs(100)

\* a campaign with spend 510 is a candidate while one with spend exactly 500 and
\* the same low roas is not
C9_Witness ==
    /\ AppOptimizeDone
    /\ Len(underperforming) = 1
    /\ underperforming[1].spend = 510
    /\ \E c \in CampaignSet :
          /\ SpendOf(CampaignRows(Entering, c)) = 500
          /\ 5 * RevenueOf(CampaignRows(Entering, c)) < 4 * 500
    /\ potential_savings = Num(255)

----------------------------------------------------------------------------
(* C10: the scale-up rule of app.py *)

\* the channels whose roas is defined and is the largest of the defined ones
BestDefined ==
    {i \in 1..Len(channel_stats) :
        /\ IsNum(channel_stats[i].roas)
        /\ \A j \in 1..Len(channel_stats) :
              IsNum(channel_stats[j].roas)
                  => ~Gt(channel_stats[j].roas, channel_stats[i].roas)}

\* C10: for every channel selection, the empty one and channels without spend
\* included, evaluating the scale-up rule does not fail and emits at most one
\* recommendation; it emits one if and only if a channel of maximal defined roas
\* has roas strictly above 1.5, and the recommendation names such a channel.
C10_ScaleUpRule ==
    AppChannelDone =>
        LET out == ScaleUpRule(channel_stats)
            above == {i \in BestDefined : Gt(channel_stats[i].roas, Rat(3, 2))}
        IN  /\ out.ok
            /\ Len(out.recs) <= 1
            /\ Len(out.recs) = 1 <=> above # {}
            /\ \A k \in 1..Len(out.recs) :
                  \E i \in above : out.recs[k].name = channel_stats[i].key
            /\ pc = "done" =>
                  SelectSeq(recommendations, LAMBDA r: r.kind = "scale_up") = out.recs

\* the rule's outcome where at least one channel is selected and every selected
\* channel has spend
C10_ScaleUpWhereDefined ==
    (AppChannelDone /\ channel_stats # <<>>
                    /\ (\A i \in 1..Len(channel_stats) : IsNum(channel_stats[i].roas))) =>
        LET out == ScaleUpRule(channel_stats)
            above == {i \in BestDefined : Gt(channel_stats[i].roas, Rat(3, 2))}
        IN  /\ out.ok
            /\ Len(out.recs) <= 1
            /\ Len(out.recs) = 1 <=> above # {}
            /\ \A k \in 1..Len(out.recs) :
                  \E i \in above : out.recs[k].name = channel_stats[i].key

----------------------------------------------------------------------------
(* C11: the spike rule *)

\* the recommendation section of a script has run, to its end or to its exception
RecsActed == (prog = "app" /\ pc = "done") \/ TestRecsDone

\* an emitted day above the mean: an anomaly of direction high
HighAnomalies == {i \in 1..Len(anomalies) : DaysN * anomalies[i].spend > DaysS}

\* the investigate-spend-spike entries citing the day's date, spend and roas
SpikeRecsFor(a) ==
    {k \in 1..Len(recommendations) :
        /\ recommendations[k].kind = "spike"
        /\ recommendations[k].date = a.key
        /\ recommendations[k].spend = Num(a.spend)
        /\ recommendations[k].roas = a.roas}

\* C11: every emitted anomaly of direction high has exactly one investigate-spend-
\* spike entry in the recommendations of the same run, citing that day's date, spend
\* and same-day roas, and every spike entry is for a day that is a high anomaly.
C11_SpikeRule ==
    RecsActed =>
        /\ \A i \in HighAnomalies : Cardinality(SpikeRecsFor(anomalies[i])) = 1
        /\ \A k \in 1..Len(recommendations) :
              recommendations[k].kind = "spike" =>
                  \E i \in HighAnomalies : recommendations[k].date = anomalies[i].key

\* what the scripts do: no run holds a spike entry, and test.py stops with
\* AttributeError in its spike loop whenever a spike was detected
C11_NoSpikeEntryEver ==
    /\ \A k \in 1..Len(recommendations) : recommendations[k].kind # "spike"
    /\ (TestRecsDone /\ Len(anomalies) > 0) => (pc = "failed" /\ error = "AttributeError")
    /\ (TestRecsDone /\ Len(anomalies) = 0) => pc = "done"

\* app.py ran to its end with a high anomaly on display
C11_AppHighWitness ==
    /\ prog = "app" /\ pc = "done"
    /\ HighAnomalies # {}

----------------------------------------------------------------------------
(* C12: the merge order of the unified record set *)

\* the unified record set has been built
LoadDone ==
    /\ pc # "load"
    /\ ~(prog = "app" /\ pc = "failed" /\ error \in AppLoadErrors)
    /\ ~(prog = "test" /\ pc = "failed" /\ error \in TestLoadErrors)

\* the position of a channel in the insertion order Facebook, Google, TikTok
ChannelRank(c) ==
    CASE c = "Facebook" -> 1 [] c = "Google" -> 2 [] c = "TikTok" -> 3

\* the columns a row was read with
AsRead(r) ==
    [date |-> r.date, campaign |-> r.campaign, impression |-> r.impression,
     clicks |-> r.clicks, spend |-> r.spend,
     attributed_revenue |-> r.attributed_revenue]

\* the rows of the unified record set tagged with channel c, as they were read
RowsOfChannel(c) ==
    LET tagged == SelectSeq(all_marketing, LAMBDA r: r.channel = c)
    IN  [i \in 1..Len(tagged) |-> AsRead(tagged[i])]

\* C12: the unified record set holds every row of every channel file exactly once,
\* tagged with the channel it came from: the rows tagged with one channel are that
\* file's rows in their original order, and all rows of Facebook precede all rows of
\* Google, which precede all rows of TikTok.
C12_MergeOrder ==
    LoadDone =>
        /\ \A c \in {"Facebook", "Google", "TikTok"} : RowsOfChannel(c) = files[c]
        /\ \A i \in 1..Len(all_marketing) :
              all_marketing[i].channel \in {"Facebook", "Google", "TikTok"}
        /\ \A i \in 1..Len(all_marketing) : \A j \in 1..Len(all_marketing) :
              i < j => ChannelRank(all_marketing[i].channel)
                          <= ChannelRank(all_marketing[j].channel)

\* all three files hold rows, TikTok's two rows out of date order, and the unified
\* record set was built from them
C12_Witness ==
    /\ LoadDone
    /\ Len(files["Facebook"]) = 1 /\ Len(files["Google"]) = 2
    /\ Len(files["TikTok"]) = 2
    /\ files["TikTok"][1].date > files["TikTok"][2].date
    /\ Len(all_marketing) = 5

----------------------------------------------------------------------------
(* C14: the frame condition of the filters *)

\* what load_data builds from the files, and the combined set after the conversion
OrigMarketing == RowMetrics(ConcatChannels(files, headers), TRUE)
OrigDaily == AggMetrics(GroupSum(OrigMarketing, "date", DateKeys(OrigMarketing)), TRUE)
OrigCombined == ConvertDates(AppRatios(MergeLeft(business, OrigDaily)))

\* the current filter choices applied to the original data
ViewOfChoice == Filtered(OrigCombined, date_range)
MarketingOfChoice == filtered_marketing(OrigMarketing, selected_channels)

\* in every state of the dashboard after loading, whatever filter choices and reruns
\* came before: the record set and the daily aggregate are those of the files, and
\* each result is that of the current choice applied to the original data
FrameState ==
    (prog = "app" /\ LoadDone) =>
        /\ all_marketing = OrigMarketing
        /\ daily_marketing = OrigDaily
        /\ AppKpiDone =>
              /\ kpi.total_spend = SumF(Col(ViewOfChoice, "spend"))
              /\ kpi.total_attributed_revenue =
                     SumF(Col(ViewOfChoice, "attributed_revenue"))
              /\ kpi.avg_roas = MeanF(Col(ViewOfChoice, "roas"))
        /\ AppChannelDone => channel_stats = ChannelStats(MarketingOfChoice)
        /\ AppCampaignDone => campaign_stats = CampaignStats(MarketingOfChoice)
        /\ AppDetectDone => anomalies = AppAnomalies(OrigDaily)

\* a step of a dashboard run after loading: the filters, the aggregations, the
\* anomaly detection or the recommendations
FrameStep ==
    (prog = "app" /\ pc \notin {"load", "done", "failed"}) =>
        /\ all_marketing' = all_marketing
        /\ daily_marketing' = daily_marketing
        /\ files' = files

\* C14: applying a date-range or channel-subset filter, and running the
\* aggregations, anomaly detection and recommendations that follow, leaves the
\* unified record set and the daily marketing aggregate unchanged (same rows, same
\* order, same values), and after any sequence of filter choices the results are
\* those of the last choice applied to the original data.
C14_FilterFrame == []FrameState /\ [][FrameStep]_vars

\* a run ended with a channel filtered out and a day outside the date range, and
\* the filtered-out records are still in the unified record set
C14_Witness ==
    /\ prog = "app" /\ pc = "done"
    /\ selected_channels # {}
    /\ \E i \in 1..Len(all_marketing) : all_marketing[i].channel \notin selected_channels
    /\ Len(date_range) = 2
    /\ Len(Filtered(combined, date_range)) < Len(combined)
    /\ Len(daily_marketing) = 2

----------------------------------------------------------------------------
(* C13: the schema check *)

\* the columns a channel file lacks after header normalization
MissingIn(c) == RequiredCols \ ColumnsOf(headers[c])

SomeColumnMissing == \E c \in {"Facebook", "Google", "TikTok"} : MissingIn(c) # {}

\* a script has gone past its loading section, or has stopped
PastLoading == pc # "load"

\* C13: if any channel file lacks any one of the columns date, campaign,
\* impression, clicks, spend or attributed_revenue after header normalization,
\* loading fails with an error that names a missing column, and the run produces no
\* unified record set, no aggregate and no combined output.
C13_SchemaCheck ==
    (SomeColumnMissing /\ PastLoading) =>
        /\ pc = "failed"
        /\ \E c \in {"Facebook", "Google", "TikTok"} :
              \E col \in MissingIn(c) : error = KeyError(col)
        /\ all_marketing = <<>>
        /\ daily_marketing = <<>>
        /\ combined = <<>>
        /\ channel_stats = <<>>
        /\ campaign_stats = <<>>

\* what the scripts do: a run stops with a KeyError only for a column that no file
\* has, and app.py's load_data then returns nothing; a column that some file has is
\* never reported
C13_KeyErrorOnlyIfNoFileHasIt ==
    /\ \A col \in RequiredCols :
          (pc = "failed" /\ error = KeyError(col)) =>
              \A c \in {"Facebook", "Google", "TikTok"} : col \in MissingIn(c)
    /\ (prog = "app" /\ pc = "failed" /\ error \in AppLoadErrors) =>
          (all_marketing = <<>> /\ daily_marketing = <<>> /\ combined = <<>>)
    /\ (prog = "app" /\ PastLoading /\ \E col \in RequiredCols \ {"campaign"} :
            \A c \in {"Facebook", "Google", "TikTok"} : col \in MissingIn(c))
          => (pc = "failed" /\ error \in AppLoadErrors)
    /\ (prog = "test" /\ PastLoading /\ \E col \in RequiredCols \ {"campaign", "date"} :
            \A c \in {"Facebook", "Google", "TikTok"} : col \in MissingIn(c))
          => (pc = "failed" /\ error \in TestLoadErrors)

\* app.py ran to its end on files of which one has no spend column
C13_PartialWitness ==
    /\ prog = "app" /\ pc = "done"
    /\ "spend" \in MissingIn("Facebook")
    /\ Len(all_marketing) = 3

====
